---------------------------- MODULE Spec2Model ----------------------------
(***************************************************************************)
(* Chess AI training artefact: the ChessGameWithAI orchestrator            *)
(* (chess_game_with_ai.py), the PositionEvaluator (position_evaluator.py), *)
(* the DatabaseManager (database_manager.py) and the FinalChessGame main   *)
(* loop (final_game.py).                                                   *)
(*                                                                         *)
(* The rules engine the code drives (chess.Board of python-chess) is       *)
(* modelled by what its calls do, on a board of Files x Ranks squares with *)
(* the six piece types, single-step pawns, promotion, and neither castling *)
(* rights nor en-passant squares.                                          *)
(***************************************************************************)
EXTENDS Integers, Sequences, FiniteSets, TLC

(***************************************************************************)
(* Bounds of the model.                                                    *)
(***************************************************************************)
Files == 3
Ranks == 4
MaxPly == 2
MaxGames == 2
MaxRecords == 1
MaxEvals == 2
MaxNameLen == 1
MaxSearches == 2
MaxHistory == 3
MaxCalls == 4
SQUARE_SIZE == 4
BOARD_OFFSET_X == 2
BOARD_OFFSET_Y == 3

(***************************************************************************)
(* chess: colours, piece types, squares.                                   *)
(***************************************************************************)
WHITE == TRUE
BLACK == FALSE

PAWN == "pawn"
KNIGHT == "knight"
BISHOP == "bishop"
ROOK == "rook"
QUEEN == "queen"
KING == "king"
PIECE_TYPES == {PAWN, KNIGHT, BISHOP, ROOK, QUEEN, KING}

\* piece_at() returns None for an empty square
NoPiece == [piece_type |-> "none", color |-> FALSE]
Piece(t, c) == [piece_type |-> t, color |-> c]

SQUARES == 0 .. (Files * Ranks - 1)
square_file(s) == s % Files
square_rank(s) == s \div Files
square(f, r) == r * Files + f
OnBoard(f, r) == f \in 0 .. (Files - 1) /\ r \in 0 .. (Ranks - 1)

FILE_NAMES == <<"a", "b", "c", "d", "e", "f", "g", "h">>
RANK_NAMES == <<"1", "2", "3", "4", "5", "6", "7", "8">>
\* PIECE_SYMBOLS: the letters Move.from_uci accepts as a promotion
PIECE_SYMBOLS == [p |-> PAWN, n |-> KNIGHT, b |-> BISHOP, r |-> ROOK, q |-> QUEEN, k |-> KING]
piece_symbol(t) == CHOOSE c \in DOMAIN PIECE_SYMBOLS : PIECE_SYMBOLS[c] = t

(***************************************************************************)
(* chess.Move: from_square, to_square, promotion ("none" when absent).     *)
(* The null move is Move(0, 0).                                            *)
(***************************************************************************)
Move(f, t, p) == [from_square |-> f, to_square |-> t, promotion |-> p]
NullMove == Move(0, 0, "none")

\* SQUARE_NAMES.index(two characters), -1 for the ValueError
square_index(fc, rc) ==
    IF /\ \E i \in 1 .. Files : FILE_NAMES[i] = fc
       /\ \E j \in 1 .. Ranks : RANK_NAMES[j] = rc
    THEN square((CHOOSE i \in 1 .. Files : FILE_NAMES[i] = fc) - 1,
                (CHOOSE j \in 1 .. Ranks : RANK_NAMES[j] = rc) - 1)
    ELSE -1

square_name(s) == <<FILE_NAMES[square_file(s) + 1], RANK_NAMES[square_rank(s) + 1]>>

\* Move.uci()
uci(m) ==
    IF m = NullMove THEN <<"0", "0", "0", "0">>
    ELSE square_name(m.from_square) \o square_name(m.to_square)
         \o (IF m.promotion = "none" THEN <<>> ELSE <<piece_symbol(m.promotion)>>)

\* Move.from_uci(text): the move, or InvalidMove for the ValueError it raises
InvalidMove == Move(-1, -1, "none")

\* a parser that takes a move from a square to itself
from_uci_same_square(text) ==
    IF text = <<"0", "0", "0", "0">> THEN NullMove
    ELSE IF Len(text) \in {4, 5} THEN
        LET f == square_index(text[1], text[2])
            t == square_index(text[3], text[4])
            okPromo == Len(text) = 4 \/ text[5] \in DOMAIN PIECE_SYMBOLS
        IN  IF f = -1 \/ t = -1 \/ ~okPromo THEN InvalidMove
            ELSE Move(f, t, IF Len(text) = 5 THEN PIECE_SYMBOLS[text[5]] ELSE "none")
    ELSE InvalidMove

from_uci(text) ==
    IF text = <<"0", "0", "0", "0">> THEN NullMove
    ELSE IF Len(text) \in {4, 5} THEN
        LET f == square_index(text[1], text[2])
            t == square_index(text[3], text[4])
            okPromo == Len(text) = 4 \/ text[5] \in DOMAIN PIECE_SYMBOLS
        IN  IF f = -1 \/ t = -1 \/ ~okPromo THEN InvalidMove
            ELSE IF f = t THEN InvalidMove
            ELSE Move(f, t, IF Len(text) = 5 THEN PIECE_SYMBOLS[text[5]] ELSE "none")
    ELSE InvalidMove

(***************************************************************************)
(* chess.Board: sq is the piece placement, turn the side to move, stack    *)
(* the pushed moves, each with the board state push() saved for pop().     *)
(***************************************************************************)
Occupied(sq, s) == sq[s].piece_type # "none"
OwnedBy(sq, s, c) == Occupied(sq, s) /\ sq[s].color = c

MaxDim == IF Files > Ranks THEN Files ELSE Ranks

KnightDeltas == {<<1, 2>>, <<2, 1>>, <<-1, 2>>, <<-2, 1>>, <<1, -2>>, <<2, -1>>, <<-1, -2>>, <<-2, -1>>}
KingDeltas == {<<1, 0>>, <<-1, 0>>, <<0, 1>>, <<0, -1>>, <<1, 1>>, <<1, -1>>, <<-1, 1>>, <<-1, -1>>}
RookDirs == {<<1, 0>>, <<-1, 0>>, <<0, 1>>, <<0, -1>>}
BishopDirs == {<<1, 1>>, <<1, -1>>, <<-1, 1>>, <<-1, -1>>}

Steps(s, deltas) ==
    { square(square_file(s) + d[1], square_rank(s) + d[2]) :
        d \in { e \in deltas : OnBoard(square_file(s) + e[1], square_rank(s) + e[2]) } }

Ray(sq, s, d) ==
    LET f == square_file(s)
        r == square_rank(s)
        ks == { k \in 1 .. (MaxDim - 1) :
                /\ OnBoard(f + k * d[1], r + k * d[2])
                /\ \A j \in 1 .. (k - 1) : ~Occupied(sq, square(f + j * d[1], r + j * d[2])) }
    IN  { square(f + k * d[1], r + k * d[2]) : k \in ks }

Rays(sq, s, dirs) == UNION { Ray(sq, s, d) : d \in dirs }

PawnDir(c) == IF c = WHITE THEN 1 ELSE -1
BackRank(c) == IF c = WHITE THEN Ranks - 1 ELSE 0

\* Board.attacks(square): the squares the piece on s attacks
attacks(sq, s) ==
    LET t == sq[s].piece_type IN
    IF t = PAWN THEN Steps(s, {<<1, PawnDir(sq[s].color)>>, <<-1, PawnDir(sq[s].color)>>})
    ELSE IF t = KNIGHT THEN Steps(s, KnightDeltas)
    ELSE IF t = KING THEN Steps(s, KingDeltas)
    ELSE IF t = BISHOP THEN Rays(sq, s, BishopDirs)
    ELSE IF t = ROOK THEN Rays(sq, s, RookDirs)
    ELSE IF t = QUEEN THEN Rays(sq, s, RookDirs \cup BishopDirs)
    ELSE {}

\* Board.is_attacked_by(color, square)
is_attacked_by(sq, c, s) == \E q \in SQUARES : OwnedBy(sq, q, c) /\ s \in attacks(sq, q)

\* Board.king(color): the king's square, -1 for None
king(sq, c) ==
    LET ks == { s \in SQUARES : sq[s] = Piece(KING, c) }
    IN  IF ks = {} THEN -1 ELSE CHOOSE s \in ks : \A t \in ks : t <= s

PromotionsOf(sq, s, t) ==
    IF sq[s].piece_type = PAWN /\ square_rank(t) = BackRank(sq[s].color)
    THEN {QUEEN, ROOK, BISHOP, KNIGHT} ELSE {"none"}

\* Board.generate_pseudo_legal_moves()
pseudo_legal_moves(sq, c) ==
    UNION { LET targets ==
                IF sq[s].piece_type = PAWN
                THEN { t \in attacks(sq, s) : OwnedBy(sq, t, ~c) }
                     \cup { t \in Steps(s, {<<0, PawnDir(c)>>}) : ~Occupied(sq, t) }
                ELSE { t \in attacks(sq, s) : ~OwnedBy(sq, t, c) }
            IN  UNION { { Move(s, t, p) : p \in PromotionsOf(sq, s, t) } : t \in targets }
          : s \in { q \in SQUARES : OwnedBy(sq, q, c) } }

\* the placement after a piece of side c goes from m.from_square to m.to_square
Placed(sq, m, c) ==
    [sq EXCEPT ![m.from_square] = NoPiece,
               ![m.to_square] = Piece(IF m.promotion = "none" THEN sq[m.from_square].piece_type
                                      ELSE m.promotion, c)]

\* a pseudo-legal move is legal when it does not leave the own king attacked
IsSafe(sq, c, m) ==
    LET sq2 == Placed(sq, m, c)
        k == king(sq2, c)
    IN  k = -1 \/ ~is_attacked_by(sq2, ~c, k)

\* Board.legal_moves
LegalMovesOf(sq, c) == { m \in pseudo_legal_moves(sq, c) : IsSafe(sq, c, m) }
legal_moves(b) == LegalMovesOf(b.sq, b.turn)

\* any(Board.generate_legal_moves())
any_legal_move(b) == \E m \in pseudo_legal_moves(b.sq, b.turn) : IsSafe(b.sq, b.turn, m)

\* Board.is_check(), is_checkmate(), is_stalemate()
is_check(b) ==
    LET k == king(b.sq, b.turn) IN k # -1 /\ is_attacked_by(b.sq, ~b.turn, k)
is_checkmate(b) == is_check(b) /\ ~any_legal_move(b)
is_stalemate(b) == ~is_check(b) /\ ~any_legal_move(b)

\* Board.has_insufficient_material(color), is_insufficient_material()
SquareIsDark(s) == (square_file(s) + square_rank(s)) % 2 = 0
has_insufficient_material(sq, c) ==
    LET own == { s \in SQUARES : OwnedBy(sq, s, c) }
        has(S, t) == \E s \in S : sq[s].piece_type = t
        all == { s \in SQUARES : Occupied(sq, s) }
        bishops == { s \in all : sq[s].piece_type = BISHOP }
    IN  IF has(own, PAWN) \/ has(own, ROOK) \/ has(own, QUEEN) THEN FALSE
        ELSE IF has(own, KNIGHT)
        THEN /\ Cardinality(own) <= 2
             /\ ~\E s \in all \ own : sq[s].piece_type \notin {KING, QUEEN}
        ELSE IF has(own, BISHOP)
        THEN /\ \/ ~\E s \in bishops : SquareIsDark(s)
                \/ ~\E s \in bishops : ~SquareIsDark(s)
             /\ ~has(all, PAWN) /\ ~has(all, KNIGHT)
        ELSE TRUE
is_insufficient_material(b) ==
    has_insufficient_material(b.sq, WHITE) /\ has_insufficient_material(b.sq, BLACK)

\* Board.is_zeroing(move): a pawn move or a capture
is_zeroing(sq, turn, m) ==
    \E s \in (IF m.from_square = m.to_square THEN {} ELSE {m.from_square, m.to_square}) :
        sq[s].piece_type = PAWN \/ OwnedBy(sq, s, ~turn)

\* the state push() saves and pop() restores
BoardState(b, m) ==
    [move |-> m, sq |-> b.sq, turn |-> b.turn,
     halfmove_clock |-> b.halfmove_clock, fullmove_number |-> b.fullmove_number]

\* Board.push(move) asserts that a piece stands on the from-square
push_raises(b, m) == m # NullMove /\ ~Occupied(b.sq, m.from_square)

\* Board.push(move): no legality check. The piece arriving on the to-square
\* is set with the colour of the side to move. When the assertion fails the
\* stack and the counters are already updated, the turn is not.
push(b, m) ==
    LET counted == [b EXCEPT !.stack = Append(b.stack, BoardState(b, m)),
                             !.halfmove_clock = b.halfmove_clock + 1,
                             !.fullmove_number = IF b.turn = BLACK THEN b.fullmove_number + 1
                                                 ELSE b.fullmove_number]
        zeroed == IF is_zeroing(b.sq, b.turn, m)
                  THEN [counted EXCEPT !.halfmove_clock = 0] ELSE counted
    IN  IF m = NullMove THEN [counted EXCEPT !.turn = ~b.turn]
        ELSE IF push_raises(b, m) THEN zeroed
        ELSE [zeroed EXCEPT !.sq = Placed(b.sq, m, b.turn), !.turn = ~b.turn]

\* Board.pop(): restore the state saved by the last push
pop(b) ==
    LET top == b.stack[Len(b.stack)]
    IN  [sq |-> top.sq, turn |-> top.turn, halfmove_clock |-> top.halfmove_clock,
         fullmove_number |-> top.fullmove_number, stack |-> SubSeq(b.stack, 1, Len(b.stack) - 1)]

\* Board.fen(): placement, side to move and the two counters
fen(b) == [sq |-> b.sq, turn |-> b.turn, halfmove_clock |-> b.halfmove_clock,
           fullmove_number |-> b.fullmove_number]

\* Board.san(move) asserts that a piece stands on the from-square of a
\* move that is not null: "AssertionError" stands for the raise
san(b, m) ==
    IF m = NullMove THEN "--"
    ELSE IF ~Occupied(b.sq, m.from_square) THEN "AssertionError"
    ELSE "san"

\* Board._transposition_key()
transposition_key(st) == <<st.sq, st.turn>>

\* Board.can_claim_threefold_repetition(): the positions back to the last
\* irreversible move are counted; a legal move reaching a position seen
\* twice also allows the claim
can_claim_threefold_repetition(b) ==
    LET n == Len(b.stack)
        counted == { i \in 1 .. n :
                       \A j \in i .. n : ~is_zeroing(b.stack[j].sq, b.stack[j].turn, b.stack[j].move) }
        times(key) == Cardinality({ i \in counted : transposition_key(b.stack[i]) = key })
                      + (IF transposition_key(b) = key THEN 1 ELSE 0)
    IN  \/ times(transposition_key(b)) >= 3
        \/ /\ counted # {}
           /\ \E m \in legal_moves(b) : times(transposition_key(push(b, m))) >= 2

\* Board.is_fifty_moves(), can_claim_fifty_moves()
is_fifty_moves(b) == b.halfmove_clock >= 100 /\ any_legal_move(b)
can_claim_fifty_moves(b) ==
    \/ is_fifty_moves(b)
    \/ /\ b.halfmove_clock >= 99
       /\ \E m \in legal_moves(b) : ~is_zeroing(b.sq, b.turn, m) /\ is_fifty_moves(push(b, m))

(***************************************************************************)
(* chess.Board(): the starting position, and Board.reset().                *)
(***************************************************************************)
StartingPlacement ==
    [s \in SQUARES |->
        IF s = square(0, Ranks - 1) THEN Piece(KING, BLACK)
        ELSE IF s = square(0, Ranks - 3) THEN Piece(KING, WHITE)
        ELSE IF s = square(1, Ranks - 4) THEN Piece(ROOK, WHITE)
        ELSE IF s = square(2, Ranks - 2) THEN Piece(PAWN, WHITE)
        ELSE NoPiece]

BoardOf(sq, turn) ==
    [sq |-> sq, turn |-> turn, halfmove_clock |-> 0, fullmove_number |-> 1, stack |-> <<>>]

StartingBoard == BoardOf(StartingPlacement, WHITE)

(***************************************************************************)
(* PositionEvaluator (position_evaluator.py).                              *)
(***************************************************************************)
\* a table that values the bishop as the knight
PIECE_VALUES_bishop_as_knight ==
    [pawn |-> 100, knight |-> 320, bishop |-> 320, rook |-> 500, queen |-> 900, king |-> 0]

PIECE_VALUES == [pawn |-> 100, knight |-> 320, bishop |-> 330, rook |-> 500, queen |-> 900, king |-> 0]

\* PositionEvaluator(): the object holds nothing but the table of its class
PositionEvaluator == [PIECE_VALUES |-> PIECE_VALUES]

\* the loop of count_material over chess.SQUARES, square 0 first
RECURSIVE MaterialFrom(_, _, _, _, _)
MaterialFrom(self, sq, s, white_material, black_material) ==
    IF s \notin SQUARES THEN white_material - black_material
    ELSE IF ~Occupied(sq, s) THEN MaterialFrom(self, sq, s + 1, white_material, black_material)
    ELSE IF sq[s].color = WHITE
    THEN MaterialFrom(self, sq, s + 1,
                      white_material + self.PIECE_VALUES[sq[s].piece_type], black_material)
    ELSE MaterialFrom(self, sq, s + 1,
                      white_material, black_material + self.PIECE_VALUES[sq[s].piece_type])

count_material(self, b) == MaterialFrom(self, b.sq, 0, 0, 0)

\* an evaluator that counts material first and looks at who is mated after
evaluate_position_material_first(self, b) ==
    IF count_material(self, b) # 0 THEN count_material(self, b)
    ELSE IF is_checkmate(b)
    THEN (IF b.turn = WHITE THEN -10000 ELSE 10000)
    ELSE 0

evaluate_position(self, b) ==
    IF is_checkmate(b)
    THEN (IF b.turn = WHITE THEN -10000 ELSE 10000)
    ELSE 0 + count_material(self, b)

(***************************************************************************)
(* AIEngine (ai_engine.py): depth-bounded minimax with alpha-beta pruning  *)
(* and capture-first move ordering.  An engine is its difficulty, the      *)
(* depth that difficulty resolves to, and the node counter.                *)
(***************************************************************************)
\* list(board.legal_moves): the generator yields the piece moves first,
\* then the pawn captures, then the pawn advances, each from the highest
\* square down, a promotion as queen, rook, bishop, knight
generation_group(b, m) ==
    IF b.sq[m.from_square].piece_type # PAWN THEN 0
    ELSE IF square_file(m.from_square) # square_file(m.to_square) THEN 1 ELSE 2
promotion_rank(p) ==
    IF p = QUEEN THEN 0 ELSE IF p = ROOK THEN 1 ELSE IF p = BISHOP THEN 2
    ELSE IF p = KNIGHT THEN 3 ELSE 4
generation_key(b, m) ==
    LET n == Files * Ranks
    IN  ((generation_group(b, m) * n + (n - 1 - m.from_square)) * n
            + (n - 1 - m.to_square)) * 5 + promotion_rank(m.promotion)

RECURSIVE InGenerationOrder(_, _)
InGenerationOrder(b, ms) ==
    IF ms = {} THEN <<>>
    ELSE LET first == CHOOSE m \in ms :
                        \A o \in ms : generation_key(b, m) <= generation_key(b, o)
         IN  <<first>> \o InGenerationOrder(b, ms \ {first})

legal_move_list(b) == InGenerationOrder(b, legal_moves(b))

\* Board.is_capture(move): the from-square or the to-square holds a piece
\* of the side not to move (there is no en passant on this board)
is_capture(b, m) ==
    \E s \in (IF m.from_square = m.to_square THEN {} ELSE {m.from_square, m.to_square}) :
        OwnedBy(b.sq, s, ~b.turn)

\* the difficulty levels and the depth each one resolves to (and a table
\* where the last level is less deep than the one before)
Difficulties == 1 .. 10
DifficultyProfile_dip == <<1, 1, 1, 1, 2, 2, 2, 2, 3, 2>>
DifficultyProfile == <<1, 1, 1, 1, 2, 2, 2, 2, 3, 3>>

\* AIEngine(difficulty)
AIEngine(difficulty) ==
    [difficulty |-> difficulty, depth |-> DifficultyProfile[difficulty],
     evaluator |-> PositionEvaluator, nodes_searched |-> 0]

\* order_moves(board, moves) putting the non-captures first
order_moves_quiet_first(b, ms) ==
    SelectSeq(ms, LAMBDA m : ~is_capture(b, m)) \o SelectSeq(ms, LAMBDA m : is_capture(b, m))

\* AIEngine.order_moves(board, moves): the captures, then the others, each
\* group in the order it came in
order_moves(b, ms) ==
    SelectSeq(ms, LAMBDA m : is_capture(b, m)) \o SelectSeq(ms, LAMBDA m : ~is_capture(b, m))

\* the score of a node that is not expanded: the evaluator's value for a
\* checkmate and at depth 0, and 0 for a position without moves that is
\* not a checkmate
INFINITY == 100000
leaf_score(self, b) ==
    IF ~any_legal_move(b) /\ ~is_checkmate(b) THEN 0
    ELSE evaluate_position(self.evaluator, b)

\* the cutoff test with the comparison the wrong way round
cutoff_reversed(alpha, beta) == alpha <= beta

\* the cutoff test of the move loop
cutoff(alpha, beta) == beta <= alpha

\* AIEngine.minimax(board, depth, alpha, beta, maximizing) with the move
\* loop as search_moves: i is the next move of ms, best the best score and
\* best_move the best move so far, nodes the nodes counted so far.  The
\* maximizing side is White.  A node is counted on entry.
RECURSIVE minimax(_, _, _, _, _)
RECURSIVE search_moves(_, _, _, _, _, _, _, _, _, _)
search_moves(self, b, ms, i, depth, alpha, beta, best, best_move, nodes) ==
    IF i > Len(ms) \/ (i > 1 /\ cutoff(alpha, beta))
    THEN [score |-> best, move |-> best_move, nodes |-> nodes]
    ELSE LET child == minimax(self, push(b, ms[i]), depth - 1, alpha, beta)
             better == IF b.turn = WHITE THEN child.score > best ELSE child.score < best
             best2 == IF better THEN child.score ELSE best
             move2 == IF better THEN ms[i] ELSE best_move
             alpha2 == IF b.turn = WHITE /\ child.score > alpha THEN child.score ELSE alpha
             beta2 == IF b.turn = BLACK /\ child.score < beta THEN child.score ELSE beta
         IN  search_moves(self, b, ms, i + 1, depth, alpha2, beta2, best2, move2,
                          nodes + child.nodes)
minimax(self, b, depth, alpha, beta) ==
    IF depth = 0 \/ ~any_legal_move(b)
    THEN [score |-> leaf_score(self, b), move |-> NullMove, nodes |-> 1]
    ELSE search_moves(self, b, order_moves(b, legal_move_list(b)), 1, depth, alpha, beta,
                      IF b.turn = WHITE THEN -INFINITY ELSE INFINITY, NullMove, 1)

\* get_best_move going on from the count of the search before
get_best_move_counting_on(self, b) ==
    LET found == minimax(self, b, self.depth, -INFINITY, INFINITY)
    IN  [move |-> IF found.move = NullMove THEN <<>> ELSE uci(found.move),
         score |-> found.score,
         self |-> [self EXCEPT !.nodes_searched = self.nodes_searched + found.nodes]]

\* AIEngine.get_best_move(board): the counter starts again from zero, the
\* search runs from the root with the full window; the result is the move
\* as text (no text when there is none), the score and the engine with the
\* nodes of this search
get_best_move(self, b) ==
    LET reset == [self EXCEPT !.nodes_searched = 0]
        found == minimax(reset, b, self.depth, -INFINITY, INFINITY)
    IN  [move |-> IF found.move = NullMove THEN <<>> ELSE uci(found.move),
         score |-> found.score,
         self |-> [reset EXCEPT !.nodes_searched = reset.nodes_searched + found.nodes]]

\* AIEngine.get_nodes_searched()
get_nodes_searched(self) == self.nodes_searched

(***************************************************************************)
(* State.  ChessGameWithAI: board .. game_id and its evaluator.            *)
(* DatabaseManager: the Games rows (game_id is the row's index) and the    *)
(* move records.  gui is the FinalChessGame window that owns the game,     *)
(* scores the values evaluate_position has returned.  call is the          *)
(* last call made on the object: its name, its move text (the argument of  *)
(* make_move, the search result of make_ai_move), what it returned or      *)
(* raised ("value" is the move text make_ai_move returns), and the game id *)
(* it passed to update_game (0 when it did not call update_game).          *)
(* ai_engine is the game's AIEngine, searches the results get_best_move     *)
(* has returned and ordered the lists order_moves has returned.  patterns   *)
(* is the Patterns table and analysed the last call made on the opponent    *)
(* model: its name, its number among the calls, its user, the number of     *)
(* games stored at the time and the patterns it returned or was given.      *)
(* user_stats is the statistics columns of the Users rows, by user id.      *)
(***************************************************************************)
VARIABLES board, player_colour, ai_difficulty, move_history, move_times,
          game_over, result, db_manager, user_id, game_id, evaluator,
          games, moves, call, gui, scores,
          ai_engine, searches, ordered, patterns, analysed, user_stats

gameVars == <<board, player_colour, ai_difficulty, move_history, move_times,
              game_over, result, db_manager, user_id, game_id>>
dbVars == <<games, moves>>
engineVars == <<ai_engine, searches, ordered>>
patternVars == <<patterns, analysed>>
vars == <<gameVars, dbVars, call, evaluator, gui, scores, engineVars, patternVars, user_stats>>

Call(op, text, ret) == [op |-> op, text |-> text, ret |-> ret, update_game |-> 0]
\* a call that invoked update_game on the Games row gid
CallUpdating(op, text, ret, gid) == [op |-> op, text |-> text, ret |-> ret, update_game |-> gid]

(***************************************************************************)
(* Move texts given to make_move and returned by the search.               *)
(***************************************************************************)
NoText == <<>>

\* texts Move.from_uci rejects: too short, from = to, no such square,
\* no such promotion piece, too long
MalformedTexts ==
    { <<"a", "1">>, <<"a", "1", "a", "1">>, <<"i", "9", "a", "1">>,
      <<"a", "1", "a", "2", "x">>, <<"a", "1", "a", "2", "q", "q">> }

\* well-formed moves that are not legal in the starting position: the null
\* move, a move from an empty square, a rook move off its lines, a move of
\* the opponent's king
ProbeMoves ==
    { NullMove,
      Move(square(1, Ranks - 1), square(1, Ranks - 2), "none"),
      Move(square(1, Ranks - 4), square(2, Ranks - 1), "none"),
      Move(square(0, Ranks - 1), square(1, Ranks - 1), "none") }

LegalTexts(b) == { uci(m) : m \in legal_moves(b) }
ProbeTexts == { uci(m) : m \in ProbeMoves }
MoveTexts(b) == LegalTexts(b) \cup ProbeTexts \cup MalformedTexts

\* AIEngine.get_best_move(board)[0]: a legal move when there is one; the
\* orchestrator is also given results outside the legal set (a null move, an
\* illegal move, no move), which it is expected to refuse
SearchResults(b) == LegalTexts(b) \cup ProbeTexts \cup {NoText}

(***************************************************************************)
(* DatabaseManager (database_manager.py).                                  *)
(***************************************************************************)
GameRow(uid, colour, difficulty) ==
    [user_id |-> uid, result |-> "ongoing", player_colour |-> colour,
     total_moves |-> 0, ai_difficulty |-> difficulty,
     pgn_data |-> <<>>, final_position |-> <<>>, ended |-> FALSE]

\* save_game: INSERT INTO Games ... 'ongoing'; returns lastrowid
save_game(rows, uid, colour, difficulty) == Append(rows, GameRow(uid, colour, difficulty))

\* update_game, the UPDATE Games ... WHERE game_id = ? and its commit
update_game(rows, gid, res, total_moves, pgn_data, final_position) ==
    IF gid \in DOMAIN rows
    THEN [rows EXCEPT ![gid] = [@ EXCEPT !.result = res, !.total_moves = total_moves,
                                         !.pgn_data = <<pgn_data>>,
                                         !.final_position = <<final_position>>,
                                         !.ended = TRUE]]
    ELSE rows

\* update_game then executes "EXECUTE user_id FROM games WHERE game_id = ?",
\* which sqlite3 rejects: the call raises after the UPDATE is committed
update_game_raises == TRUE

\* get_game: SELECT * FROM Games WHERE game_id = ?; the row as a dictionary,
\* <<>> for None
get_game_or_latest(rows, gid) ==
    IF gid \in DOMAIN rows THEN <<[game_id |-> gid] @@ rows[gid]>>
    ELSE IF rows = <<>> THEN <<>> ELSE <<[game_id |-> Len(rows)] @@ rows[Len(rows)]>>

get_game(rows, gid) ==
    IF gid \in DOMAIN rows THEN <<[game_id |-> gid] @@ rows[gid]>> ELSE <<>>

\* the Users rows the statistics are kept for, and the statistics columns of
\* a new row (create_tables: DEFAULT 0)
UserIds == {1, 2}
UserStatistics == [total_games |-> 0, games_won |-> 0, games_lost |-> 0, games_drawn |-> 0]
NoStatistics == [u \in UserIds |-> UserStatistics]

\* _update_user_stats: total_games + 1, then the counter of the result; the
\* branches of "White_win" and "black_win" are empty
update_user_stats(stats, uid, res) ==
    IF uid \notin DOMAIN stats THEN stats
    ELSE LET counted == [stats EXCEPT ![uid].total_games = @ + 1]
         IN  IF res = "White_win" THEN counted
             ELSE IF res = "black_win" THEN counted
             ELSE IF res = "draw" THEN [counted EXCEPT ![uid].games_drawn = @ + 1]
             ELSE counted

\* update_game after its UPDATE: the rejected statement comes before the
\* owner is fetched and _update_user_stats is called
update_game_stats(stats, rows, gid, res) ==
    IF update_game_raises THEN stats
    ELSE IF gid \in DOMAIN rows THEN update_user_stats(stats, rows[gid].user_id, res)
    ELSE stats

\* save_move: one more move record
MoveRow(gid, move_number, player_side, move_uci, move_san, before, after, time_taken, score) ==
    [game_id |-> gid, move_number |-> move_number, player_side |-> player_side,
     move_uci |-> move_uci, move_san |-> move_san, position_before |-> before,
     position_after |-> after, time_taken |-> time_taken, evaluation_score |-> score]

save_move(rows, row) == Append(rows, row)

\* the db_manager a game is built with: none, the DatabaseManager of
\* database_manager.py, or a store that has save_move as well
Stores == {"None", "DatabaseManager", "MoveStore"}
has_save_move(db) == db = "MoveStore"

\* a write to the store succeeds or fails (sqlite3.Error)
StoreOutcomes == {TRUE, FALSE}

(***************************************************************************)
(* OpponentModel (opponent_model.py) and the Patterns table of the         *)
(* DatabaseManager.  A game's pgn_data is its moves in order, the move     *)
(* numbers left out; a confidence is the fraction frequency / total in     *)
(* lowest terms, <<numerator, denominator>>.                               *)
(***************************************************************************)
OPENING_PLIES == 2

\* the opening key of a game: the first OPENING_PLIES moves of its record
opening_key(pgn_data) ==
    SubSeq(pgn_data, 1, IF Len(pgn_data) < OPENING_PLIES THEN Len(pgn_data) ELSE OPENING_PLIES)

RECURSIVE gcd(_, _)
gcd(a, b) == IF b = 0 THEN a ELSE gcd(b, a % b)
confidence(frequency, total) ==
    <<frequency \div gcd(frequency, total), total \div gcd(frequency, total)>>

\* the games of a user that have a record of their moves
games_for_user(rows, uid) ==
    SelectSeq(rows, LAMBDA row : row.user_id = uid /\ row.pgn_data # <<>>)

\* the openings of the games, each with the number of games that began
\* with it, in the order they are first met
RECURSIVE count_openings(_, _)
count_openings(gs, counts) ==
    IF gs = <<>> THEN counts
    ELSE LET name == opening_key(Head(gs).pgn_data[1])
             met == { i \in DOMAIN counts : counts[i].name = name }
         IN  count_openings(Tail(gs),
                 IF met = {} THEN Append(counts, [name |-> name, frequency |-> 1])
                 ELSE [i \in DOMAIN counts |->
                          IF i \in met THEN [counts[i] EXCEPT !.frequency = @ + 1]
                          ELSE counts[i]])

\* an analysis that reports an opening only from its second game on
analyze_player_patterns_repeated(rows, uid) ==
    LET gs == games_for_user(rows, uid)
        counts == SelectSeq(count_openings(gs, <<>>), LAMBDA c : c.frequency >= 2)
    IN  [i \in DOMAIN counts |->
            [type |-> "opening", name |-> counts[i].name, frequency |-> counts[i].frequency,
             confidence |-> confidence(counts[i].frequency, Len(gs))]]

\* OpponentModel.analyze_player_patterns(user_id)
analyze_player_patterns(rows, uid) ==
    LET gs == games_for_user(rows, uid)
        counts == count_openings(gs, <<>>)
    IN  [i \in DOMAIN counts |->
            [type |-> "opening", name |-> counts[i].name, frequency |-> counts[i].frequency,
             confidence |-> confidence(counts[i].frequency, Len(gs))]]

\* DatabaseManager.save_pattern and get_patterns_for_user
save_pattern(table, uid, pattern_type, pattern_name, frequency, conf) ==
    Append(table, [user_id |-> uid, pattern_type |-> pattern_type,
                   pattern_name |-> pattern_name, frequency |-> frequency,
                   confidence |-> conf])
get_patterns_for_user(table, uid) == SelectSeq(table, LAMBDA row : row.user_id = uid)

RECURSIVE save_each(_, _, _)
save_each(table, uid, ps) ==
    IF ps = <<>> THEN table
    ELSE save_each(save_pattern(table, uid, Head(ps).type, Head(ps).name,
                                Head(ps).frequency, Head(ps).confidence),
                   uid, Tail(ps))

\* save_patterns adding to the rows the user has
save_patterns_append(table, uid, ps) == save_each(table, uid, ps)

\* OpponentModel.save_patterns(user_id, patterns): the user's rows are
\* deleted and the patterns saved in their place
save_patterns(table, uid, ps) ==
    save_each(SelectSeq(table, LAMBDA row : row.user_id # uid), uid, ps)

\* OpponentModel.load_patterns(user_id)
load_patterns(table, uid) ==
    LET rows == get_patterns_for_user(table, uid)
    IN  [i \in DOMAIN rows |->
            [type |-> rows[i].pattern_type, name |-> rows[i].pattern_name,
             frequency |-> rows[i].frequency, confidence |-> rows[i].confidence]]

\* no call made on the opponent model yet
NoAnalysis == [op |-> "none", number |-> 0]

\* the model pushes at most MaxPly moves onto a board and plays on until the
\* store holds MaxRecords move records
WithinBounds == Len(board.stack) < MaxPly /\ Len(moves) < MaxRecords

(***************************************************************************)
(* ChessGameWithAI (chess_game_with_ai.py).                                *)
(***************************************************************************)
\* no FinalChessGame window: the game is driven through its methods
NoWindow == [screen_state |-> "none"]

Init ==
    /\ board = StartingBoard
    /\ player_colour = "white"
    /\ ai_difficulty = 5
    /\ move_history = <<>>
    /\ move_times = <<>>
    /\ game_over = FALSE
    /\ result = "None"
    /\ db_manager \in Stores
    /\ user_id \in {0, 1}
    /\ game_id = 0
    /\ evaluator = PositionEvaluator
    /\ games = <<>>
    /\ moves = <<>>
    /\ call = Call("__init__", NoText, "None")
    /\ gui = NoWindow
    /\ scores = <<>>
    /\ ai_engine = AIEngine(ai_difficulty)
    /\ searches = <<>>
    /\ ordered = <<>>
    /\ patterns = <<>>
    /\ analysed = NoAnalysis
    /\ user_stats = NoStatistics

\* start_new_game
StartNewGame ==
    /\ IF db_manager # "None" /\ user_id # 0
       THEN /\ Len(games) < MaxGames
            /\ games' = save_game(games, user_id, player_colour, ai_difficulty)
            /\ game_id' = Len(games) + 1
       ELSE UNCHANGED <<games, game_id>>
    /\ call' = Call("start_new_game", NoText, "None")
    /\ UNCHANGED <<board, player_colour, ai_difficulty, move_history, move_times,
                   game_over, result, db_manager, user_id, moves>>

\* make_move(move_uci)
MakeMove(move_uci) ==
    LET move == from_uci(move_uci)
        position_before == fen(board)
        eval_before == evaluate_position(evaluator, board)
        pushed == push(board, move)
        row == MoveRow(game_id, pushed.fullmove_number,
                       IF pushed.turn = BLACK THEN "white" ELSE "black",
                       move_uci, san(pushed, move), position_before, fen(pushed),
                       <<>>, <<eval_before>>)
    IN  IF move = InvalidMove
        THEN /\ call' = Call("make_move", move_uci, "ValueError")
             /\ UNCHANGED <<gameVars, dbVars>>
        ELSE /\ WithinBounds
             /\ board' = pushed
             /\ UNCHANGED <<player_colour, ai_difficulty, move_history, move_times,
                            game_over, result, db_manager, user_id, game_id, games>>
             /\ IF push_raises(board, move)
                THEN /\ call' = Call("make_move", move_uci, "AssertionError")
                     /\ UNCHANGED moves
                ELSE IF ~has_save_move(db_manager)
                THEN /\ call' = Call("make_move", move_uci, "AttributeError")
                     /\ UNCHANGED moves
                ELSE IF san(pushed, move) = "AssertionError"
                THEN /\ call' = Call("make_move", move_uci, "AssertionError")
                     /\ UNCHANGED moves
                ELSE \E stored \in StoreOutcomes :
                        IF stored
                        THEN /\ moves' = save_move(moves, row)
                             /\ call' = Call("make_move", move_uci, "True")
                        ELSE /\ UNCHANGED moves
                             /\ call' = Call("make_move", move_uci, "OperationalError")

\* get_pgn replays move_history on a fresh chess.Board(); TRUE when one of
\* its push() calls raises
RECURSIVE ReplayRaises(_, _)
ReplayRaises(b, history) ==
    IF history = <<>> THEN FALSE
    ELSE LET move == from_uci(Head(history))
         IN  push_raises(b, move) \/ ReplayRaises(push(b, move), Tail(history))

get_pgn_raises(history) == ReplayRaises(StartingBoard, history)

get_pgn(history, colour, over, res) ==
    [White |-> IF colour = "white" THEN "Player" ELSE "AI",
     Black |-> IF colour = "white" THEN "AI" ELSE "Player",
     moves |-> history,
     Result |-> IF over
                THEN (IF res = "white_win" THEN "1-0"
                      ELSE IF res = "black_win" THEN "0-1"
                      ELSE IF res = "draw" THEN "1/2-1/2" ELSE "")
                ELSE "*"]

\* the result _check_game_over sets for the board, "None" when it sets none
GameOverResult(b) ==
    IF is_checkmate(b) THEN (IF b.turn = WHITE THEN "black_win" ELSE "white_win")
    ELSE IF is_stalemate(b) THEN "draw"
    ELSE IF is_insufficient_material(b) THEN "draw"
    ELSE IF can_claim_threefold_repetition(b) THEN "draw"
    ELSE IF can_claim_fifty_moves(b) THEN "draw"
    ELSE "None"

\* _check_game_over, called with the board b and the history h that
\* make_ai_move has just updated
CheckGameOver(b, h, op, text) ==
    LET res == GameOverResult(b)
        over == game_over \/ res # "None"
        res2 == IF res # "None" THEN res ELSE result
    IN  /\ game_over' = over
        /\ result' = res2
        /\ IF over /\ db_manager # "None" /\ game_id # 0
           THEN IF get_pgn_raises(h)
                THEN /\ call' = Call(op, text, "AssertionError")
                     /\ UNCHANGED games
                ELSE /\ games' = update_game(games, game_id, res2, Len(h),
                                             get_pgn(h, player_colour, over, res2), fen(b))
                     /\ call' = CallUpdating(op, text,
                                             IF update_game_raises THEN "OperationalError"
                                             ELSE "value", game_id)
           ELSE /\ call' = Call(op, text, "value")
                /\ UNCHANGED games

\* make_ai_move, best_move_uci being what get_best_move returned
MakeAIMove(best_move_uci) ==
    LET move == from_uci(best_move_uci)
        position_before == fen(board)
        pushed == push(board, move)
        history == Append(move_history, best_move_uci)
        row == MoveRow(game_id, Len(history),
                       IF pushed.turn = WHITE THEN "black" ELSE "white",
                       best_move_uci, san(pushed, move), position_before, fen(pushed),
                       <<0>>, <<>>)
    IN  IF game_over
        THEN /\ call' = Call("make_ai_move", NoText, "None")
             /\ UNCHANGED <<gameVars, dbVars>>
        ELSE IF move = InvalidMove
        THEN /\ call' = Call("make_ai_move", best_move_uci, "ValueError")
             /\ UNCHANGED <<gameVars, dbVars>>
        ELSE /\ WithinBounds
             /\ board' = pushed
             /\ UNCHANGED <<player_colour, ai_difficulty, db_manager, user_id, game_id>>
             /\ IF push_raises(board, move)
                THEN /\ call' = Call("make_ai_move", best_move_uci, "AssertionError")
                     /\ UNCHANGED <<move_history, move_times, game_over, result, games, moves>>
                ELSE /\ move_history' = history
                     /\ move_times' = Append(move_times, 0)
                     /\ IF db_manager # "None" /\ game_id # 0
                        THEN IF ~has_save_move(db_manager)
                             THEN /\ call' = Call("make_ai_move", best_move_uci, "AttributeError")
                                  /\ UNCHANGED <<game_over, result, games, moves>>
                             ELSE IF san(pushed, move) = "AssertionError"
                             THEN /\ call' = Call("make_ai_move", best_move_uci, "AssertionError")
                                  /\ UNCHANGED <<game_over, result, games, moves>>
                             ELSE \E stored \in StoreOutcomes :
                                    IF stored
                                    THEN /\ moves' = save_move(moves, row)
                                         /\ CheckGameOver(pushed, history, "make_ai_move", best_move_uci)
                                    ELSE /\ call' = Call("make_ai_move", best_move_uci, "OperationalError")
                                         /\ UNCHANGED <<game_over, result, games, moves>>
                        ELSE /\ UNCHANGED moves
                             /\ CheckGameOver(pushed, history, "make_ai_move", best_move_uci)

\* undo_move that clears game_over and leaves the result
UndoMove_keeping_result ==
    IF Len(move_history) > 0 /\ Len(board.stack) > 0
    THEN /\ board' = pop(board)
         /\ move_history' = SubSeq(move_history, 1, Len(move_history) - 1)
         /\ move_times' = SubSeq(move_times, 1, Len(move_times) - 1)
         /\ game_over' = FALSE
         /\ call' = Call("undo_move", NoText, "True")
         /\ UNCHANGED <<player_colour, ai_difficulty, db_manager, user_id, game_id, dbVars,
                        result>>
    ELSE /\ call' = Call("undo_move", NoText, "False")
         /\ UNCHANGED <<gameVars, dbVars>>

\* undo_move: the bare except turns a failing pop() into False
UndoMove ==
    IF Len(move_history) > 0 /\ Len(board.stack) > 0
    THEN /\ board' = pop(board)
         /\ move_history' = SubSeq(move_history, 1, Len(move_history) - 1)
         /\ move_times' = SubSeq(move_times, 1, Len(move_times) - 1)
         /\ game_over' = FALSE
         /\ result' = "None"
         /\ call' = Call("undo_move", NoText, "True")
         /\ UNCHANGED <<player_colour, ai_difficulty, db_manager, user_id, game_id, dbVars>>
    ELSE /\ call' = Call("undo_move", NoText, "False")
         /\ UNCHANGED <<gameVars, dbVars>>

\* reset_game
ResetGame ==
    /\ board' = StartingBoard
    /\ move_history' = <<>>
    /\ move_times' = <<>>
    /\ game_over' = FALSE
    /\ result' = "None"
    /\ call' = Call("reset_game", NoText, "None")
    /\ UNCHANGED <<player_colour, ai_difficulty, db_manager, user_id, game_id, dbVars>>

\* what the methods of the game leave alone
apart == <<evaluator, gui, scores, engineVars, patternVars, user_stats>>

Next ==
    \/ StartNewGame /\ UNCHANGED apart
    \/ \E move_uci \in MoveTexts(board) : MakeMove(move_uci) /\ UNCHANGED apart
    \/ \E best_move_uci \in SearchResults(board) : MakeAIMove(best_move_uci) /\ UNCHANGED apart
    \/ UndoMove /\ UNCHANGED apart
    \/ ResetGame /\ UNCHANGED apart

Spec == Init /\ [][Next]_vars

(***************************************************************************)
(* Claims about ChessGameWithAI, checked under Spec.                       *)
(***************************************************************************)
\* the moves on the board's stack were all legal when they were pushed
PlayedLegally(b) ==
    \A i \in 1 .. Len(b.stack) :
        b.stack[i].move \in LegalMovesOf(b.stack[i].sq, b.stack[i].turn)

\* C1: in a position with at least one legal move, a search result that
\* make_ai_move pushes is in the legal move set; a result that names a move
\* outside the set fails the call and leaves the board as it was.
C1_AiMoveLegalOrRefused ==
    [][ (/\ call'.op = "make_ai_move" /\ ~game_over /\ legal_moves(board) # {}
         /\ from_uci(call'.text) \notin {InvalidMove, NullMove})
        => IF from_uci(call'.text) \in legal_moves(board)
           THEN TRUE
           ELSE /\ board' = board /\ move_history' = move_history
                /\ call'.ret \notin {"value", "None"} ]_vars

\* C2: make_move with a well-formed move of a piece outside the legal set returns
\* False and leaves the board, the move history and the move records as
\* they were.
C2_IllegalMoveRejected ==
    [][ (/\ call'.op = "make_move"
         /\ from_uci(call'.text) \notin {InvalidMove, NullMove}
         /\ from_uci(call'.text) \notin legal_moves(board))
        => /\ call'.ret = "False"
           /\ board' = board /\ move_history' = move_history /\ moves' = moves ]_vars

\* C3: after make_move and make_ai_move calls (here: of legal moves only),
\* a checkmate on the board means game_over with the side not to move as
\* winner, and a stalemate, insufficient material or a claimable draw means
\* game_over with result draw.
C3_StatusReflectsBoard ==
    (call.op \in {"make_move", "make_ai_move"} /\ PlayedLegally(board))
    => /\ is_checkmate(board)
          => game_over /\ result = (IF board.turn = WHITE THEN "black_win" ELSE "white_win")
       /\ (\/ is_stalemate(board) \/ is_insufficient_material(board)
           \/ can_claim_threefold_repetition(board) \/ can_claim_fifty_moves(board))
          => game_over /\ result = "draw"

\* C4: a move operation given a legal move never ends in an error of the
\* store (no store attached: AttributeError; a failing write or update:
\* OperationalError), and make_move returns True.
C4_PersistenceNeverBlocks ==
    (call.op \in {"make_move", "make_ai_move"} /\ board.stack # <<>> /\ PlayedLegally(board)
        /\ call.ret \notin {"None", "ValueError"})
    => /\ call.ret \notin {"AttributeError", "OperationalError"}
       /\ (call.op = "make_move" /\ db_manager = "None") => call.ret = "True"

\* C5: make_move with text that does not parse is rejected and leaves the
\* game and the store as they were.
C5_MalformedRejectedUntouched ==
    [][ (call'.op = "make_move" /\ call'.text \in MalformedTexts)
        => /\ call'.ret \in {"ValueError", "False"}
           /\ UNCHANGED <<gameVars, dbVars>> ]_vars

\* C5 witness: a malformed text was given to make_move on a board that has
\* moves on it, with a store attached and a game started
C5_Witness ==
    /\ call.op = "make_move" /\ call.text \in MalformedTexts
    /\ board.stack # <<>> /\ db_manager = "MoveStore" /\ game_id # 0

\* C6: the GameRecord is written once, when the game ends, and not again: a
\* make_ai_move that plays a legal move and leaves a finished game has
\* written the record of the game; update_game is not invoked on a record
\* that is already written; and a written record does not change.
BoardIsOver(b) == GameOverResult(b) # "None"
C6_GameRecordWrittenOnce ==
    [][ /\ (/\ call'.op = "make_ai_move" /\ call'.ret \notin {"None", "ValueError"}
            /\ from_uci(call'.text) \in legal_moves(board)
            /\ db_manager # "None" /\ game_id # 0 /\ BoardIsOver(board'))
           => games'[game_id].ended
        /\ call'.update_game # 0 => ~games[call'.update_game].ended
        /\ \A g \in DOMAIN games : games[g].ended => games'[g] = games[g] ]_vars

(***************************************************************************)
(* PositionEvaluator on its own: evaluate_position called on a board, up   *)
(* to MaxEvals times.  The boards are those with the white king in the     *)
(* corner, the black king away from it, and for each side no piece more or *)
(* one piece more, no pawn on the first or last rank, and the side that    *)
(* has moved not left in check.                                            *)
(***************************************************************************)
ExtraKinds == {PAWN, KNIGHT, BISHOP, ROOK, QUEEN}
NoExtra == <<>>
Extras == {NoExtra} \cup { <<t, s>> : t \in ExtraKinds, s \in SQUARES \ {0} }

EvalPlacement(bk, w, b) ==
    [s \in SQUARES |->
        IF s = 0 THEN Piece(KING, WHITE)
        ELSE IF s = bk THEN Piece(KING, BLACK)
        ELSE IF w # NoExtra /\ w[2] = s THEN Piece(w[1], WHITE)
        ELSE IF b # NoExtra /\ b[2] = s THEN Piece(b[1], BLACK)
        ELSE NoPiece]

ExtraFits(bk, e) ==
    e # NoExtra => /\ e[2] # bk
                   /\ e[1] = PAWN => square_rank(e[2]) \in 1 .. (Ranks - 2)

EvalPlacements ==
    { EvalPlacement(bk, w, b) :
        <<bk, w, b>> \in
            { x \in (SQUARES \ {0}) \X Extras \X Extras :
                /\ x[1] \notin Steps(0, KingDeltas)
                /\ ExtraFits(x[1], x[2]) /\ ExtraFits(x[1], x[3])
                /\ (x[2] # NoExtra /\ x[3] # NoExtra) => x[2][2] # x[3][2] } }

EvalBoards ==
    { BoardOf(sq, turn) : <<sq, turn>> \in
        { y \in EvalPlacements \X {WHITE, BLACK} :
            ~is_attacked_by(y[1], y[2], king(y[1], ~y[2])) } }

EvalInit ==
    /\ board \in EvalBoards
    /\ player_colour = "white"
    /\ ai_difficulty = 5
    /\ move_history = <<>>
    /\ move_times = <<>>
    /\ game_over = FALSE
    /\ result = "None"
    /\ db_manager = "None"
    /\ user_id = 0
    /\ game_id = 0
    /\ evaluator = PositionEvaluator
    /\ games = <<>>
    /\ moves = <<>>
    /\ call = Call("__init__", NoText, "None")
    /\ gui = NoWindow
    /\ scores = <<>>
    /\ ai_engine = AIEngine(ai_difficulty)
    /\ searches = <<>>
    /\ ordered = <<>>
    /\ patterns = <<>>
    /\ analysed = NoAnalysis
    /\ user_stats = NoStatistics

\* a caller that evaluates the board and leaves it changed: it looks at the
\* position from the other side and does not take the null move back
EvaluatePositionFromOtherSide ==
    /\ Len(scores) < MaxEvals
    /\ scores' = Append(scores, evaluate_position(evaluator, board))
    /\ board' = push(board, NullMove)
    /\ UNCHANGED <<player_colour, ai_difficulty, move_history, move_times, game_over,
                   result, db_manager, user_id, game_id, evaluator, dbVars, call, gui,
                   engineVars, patternVars, user_stats>>

\* evaluator.evaluate_position(board): is_checkmate, turn and piece_at read
\* the board; nothing is assigned to the board or to the evaluator
EvaluatePosition ==
    /\ Len(scores) < MaxEvals
    /\ scores' = Append(scores, evaluate_position(evaluator, board))
    /\ UNCHANGED <<gameVars, evaluator, dbVars, call, gui, engineVars, patternVars, user_stats>>

EvalNext == EvaluatePosition

EvalSpec == EvalInit /\ [][EvalNext]_vars

(***************************************************************************)
(* AIEngine on its own: engines of any difficulty are made and asked for   *)
(* the best move of one position, up to MaxSearches searches.  The         *)
(* positions have the white king on a1, the black king on c1, a white      *)
(* queen or knight on the third rank and a black rook or knight on the     *)
(* last rank, either side to move, the side that has moved not left in     *)
(* check.                                                                  *)
(***************************************************************************)
SearchPlacements ==
    { EvalPlacement(square(2, 0), <<x[1], x[2]>>, <<x[3], x[4]>>) :
        x \in {QUEEN, KNIGHT} \X { square(f, 2) : f \in 0 .. (Files - 1) }
              \X {ROOK, KNIGHT} \X { square(f, Ranks - 1) : f \in 0 .. (Files - 1) } }

SearchBoards ==
    { BoardOf(sq, turn) : <<sq, turn>> \in
        { y \in SearchPlacements \X {WHITE, BLACK} :
            ~is_attacked_by(y[1], y[2], king(y[1], ~y[2])) } }

SearchInit ==
    /\ board \in SearchBoards
    /\ player_colour = "white"
    /\ ai_difficulty \in Difficulties
    /\ move_history = <<>>
    /\ move_times = <<>>
    /\ game_over = FALSE
    /\ result = "None"
    /\ db_manager = "None"
    /\ user_id = 0
    /\ game_id = 0
    /\ evaluator = PositionEvaluator
    /\ games = <<>>
    /\ moves = <<>>
    /\ call = Call("__init__", NoText, "None")
    /\ gui = NoWindow
    /\ scores = <<>>
    /\ ai_engine = AIEngine(ai_difficulty)
    /\ searches = <<>>
    /\ ordered = <<>>
    /\ patterns = <<>>
    /\ analysed = NoAnalysis
    /\ user_stats = NoStatistics

\* ChessGameWithAI(ai_difficulty=difficulty): a new engine for the game
NewEngine(difficulty) ==
    /\ Len(searches) < MaxSearches
    /\ ai_difficulty' = difficulty
    /\ ai_engine' = AIEngine(difficulty)
    /\ UNCHANGED <<board, player_colour, move_history, move_times, game_over, result,
                   db_manager, user_id, game_id, evaluator, dbVars, call, gui, scores,
                   searches, ordered, patternVars, user_stats>>

\* ai_engine.get_best_move(board), with get_nodes_searched() read before and
\* after the call
GetBestMove ==
    /\ Len(searches) < MaxSearches
    /\ LET found == get_best_move(ai_engine, board)
       IN  /\ ai_engine' = found.self
           /\ searches' = Append(searches, [depth |-> ai_engine.depth, move |-> found.move,
                                            score |-> found.score,
                                            nodes_before |-> get_nodes_searched(ai_engine),
                                            nodes |-> get_nodes_searched(found.self)])
    /\ UNCHANGED <<gameVars, evaluator, dbVars, call, gui, scores, ordered, patternVars, user_stats>>

SearchNext ==
    \/ \E difficulty \in Difficulties : NewEngine(difficulty)
    \/ GetBestMove

SearchSpec == SearchInit /\ [][SearchNext]_vars

(***************************************************************************)
(* order_moves on its own: the legal moves of any board of EvalBoards are  *)
(* ordered once.                                                           *)
(***************************************************************************)
\* ai_engine.order_moves(board, list(board.legal_moves))
OrderMoves ==
    /\ ordered = <<>>
    /\ ordered' = order_moves(board, legal_move_list(board))
    /\ UNCHANGED <<gameVars, evaluator, dbVars, call, gui, scores, ai_engine, searches,
                   patternVars, user_stats>>

OrderNext == OrderMoves

OrderSpec == EvalInit /\ [][OrderNext]_vars

(***************************************************************************)
(* OpponentModel on its own: finished games of two users are stored, up to *)
(* MaxHistory games, and a user's patterns are analysed, saved and loaded, *)
(* in up to MaxCalls calls.                                                *)
(* The games are stored as the tests store them: save_game, then           *)
(* update_game with the record of the moves.                               *)
(***************************************************************************)
PgnData == { <<"e4", "e5", "Nf3">>, <<"e4", "e5", "Nc3">>, <<"d4", "d5">> }

PatternInit ==
    /\ board = StartingBoard
    /\ player_colour = "white"
    /\ ai_difficulty = 5
    /\ move_history = <<>>
    /\ move_times = <<>>
    /\ game_over = FALSE
    /\ result = "None"
    /\ db_manager = "DatabaseManager"
    /\ user_id = 0
    /\ game_id = 0
    /\ evaluator = PositionEvaluator
    /\ games = <<>>
    /\ moves = <<>>
    /\ call = Call("__init__", NoText, "None")
    /\ gui = NoWindow
    /\ scores = <<>>
    /\ ai_engine = AIEngine(ai_difficulty)
    /\ searches = <<>>
    /\ ordered = <<>>
    /\ patterns = <<>>
    /\ analysed = NoAnalysis
    /\ user_stats = NoStatistics

\* db.save_game(user_id, "white", 5) and db.update_game(game_id, "draw", 20,
\* pgn_data, final_position)
RecordGame(uid, pgn_data) ==
    /\ Len(games) < MaxHistory
    /\ games' = update_game(save_game(games, uid, "white", 5), Len(games) + 1, "draw", 20,
                            pgn_data, fen(StartingBoard))
    /\ UNCHANGED <<gameVars, moves, call, evaluator, gui, scores, engineVars, patternVars, user_stats>>

\* an analysis that keeps what it found in the Patterns table
AnalyzeAndKeep(uid) ==
    /\ analysed.number < MaxCalls
    /\ analysed' = [op |-> "analyze_player_patterns", number |-> analysed.number + 1,
                    user_id |-> uid, games_seen |-> Len(games),
                    value |-> analyze_player_patterns(games, uid)]
    /\ patterns' = save_patterns_append(patterns, uid, analyze_player_patterns(games, uid))
    /\ UNCHANGED <<gameVars, dbVars, call, evaluator, gui, scores, engineVars, user_stats>>

\* opponent_model.analyze_player_patterns(user_id)
AnalyzePlayerPatterns(uid) ==
    /\ analysed.number < MaxCalls
    /\ analysed' = [op |-> "analyze_player_patterns", number |-> analysed.number + 1,
                    user_id |-> uid, games_seen |-> Len(games),
                    value |-> analyze_player_patterns(games, uid)]
    /\ UNCHANGED <<gameVars, dbVars, call, evaluator, gui, scores, engineVars, patterns, user_stats>>

\* patterns = opponent_model.analyze_player_patterns(user_id);
\* opponent_model.save_patterns(user_id, patterns)
SavePatterns(uid) ==
    /\ analysed.number < MaxCalls
    /\ LET ps == analyze_player_patterns(games, uid)
       IN  /\ patterns' = save_patterns(patterns, uid, ps)
           /\ analysed' = [op |-> "save_patterns", number |-> analysed.number + 1,
                           user_id |-> uid, games_seen |-> Len(games), value |-> ps]
    /\ UNCHANGED <<gameVars, dbVars, call, evaluator, gui, scores, engineVars, user_stats>>

\* opponent_model.load_patterns(user_id)
LoadPatterns(uid) ==
    /\ analysed.number < MaxCalls
    /\ analysed' = [op |-> "load_patterns", number |-> analysed.number + 1,
                    user_id |-> uid, games_seen |-> Len(games),
                    value |-> load_patterns(patterns, uid)]
    /\ UNCHANGED <<gameVars, dbVars, call, evaluator, gui, scores, engineVars, patterns, user_stats>>

PatternNext ==
    \/ \E uid \in UserIds, pgn_data \in PgnData : RecordGame(uid, pgn_data)
    \/ \E uid \in UserIds : AnalyzePlayerPatterns(uid)
    \/ \E uid \in UserIds : SavePatterns(uid)
    \/ \E uid \in UserIds : LoadPatterns(uid)

PatternSpec == PatternInit /\ [][PatternNext]_vars

(***************************************************************************)
(* DatabaseManager on its own: games of two users are saved, finished and  *)
(* read back, up to MaxGames rows.  call is the last call: its name, its   *)
(* arguments and what it returned or raised.                               *)
(***************************************************************************)
Colours == {"white", "black"}
SavedDifficulties == {1, 5}
Results == {"white_win", "black_win", "draw"}
GameIds == 0 .. MaxGames + 1

\* db.save_game(user_id, player_colour, ai_difficulty)
SaveGame(uid, colour, difficulty) ==
    /\ Len(games) < MaxGames
    /\ games' = save_game(games, uid, colour, difficulty)
    /\ call' = [op |-> "save_game", user_id |-> uid, player_colour |-> colour,
                ai_difficulty |-> difficulty, ret |-> Len(games')]
    /\ UNCHANGED <<gameVars, moves, evaluator, gui, scores, engineVars, patternVars, user_stats>>

\* db.update_game(game_id, result, total_moves, pgn_data, final_position)
UpdateGame(gid, res) ==
    /\ games' = update_game(games, gid, res, 20, <<"e4", "e5">>, fen(StartingBoard))
    /\ user_stats' = update_game_stats(user_stats, games, gid, res)
    /\ call' = [op |-> "update_game", game_id |-> gid, result |-> res,
                ret |-> IF update_game_raises THEN "OperationalError" ELSE "None"]
    /\ UNCHANGED <<gameVars, moves, evaluator, gui, scores, engineVars, patternVars>>

\* db.get_game(game_id)
GetGame(gid) ==
    /\ call' = [op |-> "get_game", game_id |-> gid, ret |-> get_game(games, gid)]
    /\ UNCHANGED <<gameVars, dbVars, evaluator, gui, scores, engineVars, patternVars, user_stats>>

DatabaseNext ==
    \/ \E uid \in UserIds, colour \in Colours, difficulty \in SavedDifficulties :
          SaveGame(uid, colour, difficulty)
    \/ \E gid \in GameIds, res \in Results : UpdateGame(gid, res)
    \/ \E gid \in GameIds : GetGame(gid)

DatabaseSpec == PatternInit /\ [][DatabaseNext]_vars

(***************************************************************************)
(* FinalChessGame (final_game.py): the window, its event handlers and the  *)
(* loop of run().  The loop takes the queued events one after another and  *)
(* then, once per pass, processes the AI: any number of events may come    *)
(* between two AI steps.  A click is the region of the window it falls in  *)
(* (on the board: its column and row); a key is its name or the character  *)
(* typed.  gui.loop is "running" until QUIT ("quit") or until a handler    *)
(* raises out of run() ("raised").                                         *)
(***************************************************************************)
NameChars == {"a"}
Keys == {"RETURN", "BACKSPACE", "u", "r", "ESCAPE"} \cup NameChars
Pos(region, col, row) == [region |-> region, col |-> col, row |-> row]
Regions ==
    { "input_box", "login_button", "easy", "medium", "hard", "white", "black",
      "start", "history", "logout", "analysis_button", "back", "elsewhere" }
Positions ==
    { Pos(r, 0, 0) : r \in Regions }
    \cup { Pos("board", c, r) : c \in 0 .. (Files - 1), r \in 0 .. (Ranks - 1) }

NoSquare == -1

\* FinalChessGame()
Window ==
    [loop |-> "running", screen_state |-> "login", game |-> FALSE,
     current_user_id |-> 0, current_username |-> <<>>,
     username_input |-> <<>>, input_active |-> FALSE,
     users |-> <<>>, difficulty |-> 3, player_colour |-> "white",
     selected_square |-> NoSquare, legal_moves_for_selected |-> {},
     ai_is_thinking |-> FALSE]

row_col_to_square(row, col) == (Ranks - 1 - row) * Files + col
click_to_square(pos) ==
    IF pos.region = "board" THEN row_col_to_square(pos.row, pos.col) ELSE NoSquare

is_player_turn(colour, b) ==
    IF colour = "white" THEN b.turn = WHITE ELSE b.turn = BLACK

\* the moves of the piece on s taken from the squares it attacks
get_legal_moves_for_square_attacked(b, s) ==
    { uci(Move(s, t, "none")) : t \in attacks(b.sq, s) }

get_legal_moves_for_square(b, s) ==
    { uci(m) : m \in { x \in legal_moves(b) : x.from_square = s } }

\* create_user without the UNIQUE constraint on the username
create_user_not_unique(users, username) == Len(users) + 1

\* DatabaseManager.create_user: the new row's id, 0 (None) when the name is taken
create_user(users, username) ==
    IF \E i \in DOMAIN users : users[i] = username THEN 0 ELSE Len(users) + 1

\* login_user(username)
login_user(g, username) ==
    LET created == create_user(g.users, username)
    IN  [g EXCEPT !.users = IF created = 0 THEN @ ELSE Append(@, username),
                  !.current_user_id = IF created = 0 THEN 1 ELSE created,
                  !.current_username = username,
                  !.screen_state = "menu"]

gameOnly == <<gameVars, dbVars, call, evaluator, scores, engineVars, patternVars, user_stats>>

\* FinalChessGame.start_new_game: a new ChessGameWithAI and its start_new_game()
GuiStartNewGame ==
    /\ board' = StartingBoard
    /\ player_colour' = gui.player_colour
    /\ ai_difficulty' = gui.difficulty
    /\ move_history' = <<>>
    /\ move_times' = <<>>
    /\ game_over' = FALSE
    /\ result' = "None"
    /\ user_id' = gui.current_user_id
    /\ IF db_manager # "None" /\ gui.current_user_id # 0
       THEN /\ Len(games) < MaxGames
            /\ games' = save_game(games, gui.current_user_id, gui.player_colour, gui.difficulty)
            /\ game_id' = Len(games) + 1
       ELSE /\ game_id' = 0
            /\ UNCHANGED games
    /\ call' = Call("start_new_game", NoText, "None")
    /\ gui' = [gui EXCEPT !.game = TRUE, !.screen_state = "game",
                          !.selected_square = NoSquare,
                          !.legal_moves_for_selected = {},
                          !.ai_is_thinking = IF gui.player_colour = "black" THEN TRUE ELSE @]
    /\ ai_engine' = AIEngine(gui.difficulty)
    /\ UNCHANGED <<db_manager, evaluator, moves, scores, searches, ordered, patternVars, user_stats>>

\* handle_login_input
handle_login_click(pos) ==
    /\ gui' = LET g == [gui EXCEPT !.input_active = (pos.region = "input_box")]
              IN  IF pos.region = "login_button" /\ gui.username_input # <<>>
                  THEN login_user(g, gui.username_input)
                  ELSE g
    /\ UNCHANGED gameOnly

handle_login_key(key) ==
    /\ gui' = IF ~gui.input_active THEN gui
              ELSE IF key = "RETURN" /\ gui.username_input # <<>>
              THEN login_user(gui, gui.username_input)
              ELSE IF key = "BACKSPACE"
              THEN [gui EXCEPT !.username_input = SubSeq(@, 1, Len(@) - 1)]
              ELSE IF Len(gui.username_input) < MaxNameLen /\ key \in NameChars
              THEN [gui EXCEPT !.username_input = Append(@, key)]
              ELSE gui
    /\ UNCHANGED gameOnly

\* handle_menu_click
handle_menu_click(pos) ==
    IF pos.region = "start" THEN GuiStartNewGame
    ELSE /\ gui' = CASE pos.region = "easy" -> [gui EXCEPT !.difficulty = 2]
                     [] pos.region = "medium" -> [gui EXCEPT !.difficulty = 5]
                     [] pos.region = "hard" -> [gui EXCEPT !.difficulty = 8]
                     [] pos.region = "white" -> [gui EXCEPT !.player_colour = "white"]
                     [] pos.region = "black" -> [gui EXCEPT !.player_colour = "black"]
                     [] pos.region = "logout" ->
                            [gui EXCEPT !.screen_state = "login", !.username_input = <<>>,
                                        !.current_user_id = 0]
                     [] OTHER -> gui
         /\ UNCHANGED gameOnly

\* handle_game_click
handle_game_click(pos) ==
    LET sq == click_to_square(pos)
        move_uci == square_name(gui.selected_square) \o square_name(sq)
        piece == board.sq[sq]
    IN  IF game_over /\ pos.region = "analysis_button"
        THEN \* show_analysis
             /\ gui' = IF game_id # 0 THEN [gui EXCEPT !.screen_state = "analysis"] ELSE gui
             /\ UNCHANGED gameOnly
        ELSE IF game_over \/ ~is_player_turn(player_colour, board) \/ sq = NoSquare
        THEN UNCHANGED vars
        ELSE IF gui.selected_square # NoSquare /\ move_uci \in gui.legal_moves_for_selected
        THEN /\ MakeMove(move_uci)
             /\ gui' = IF call'.ret = "True"
                       THEN [gui EXCEPT !.selected_square = NoSquare,
                                        !.legal_moves_for_selected = {},
                                        !.ai_is_thinking = IF ~game_over' THEN TRUE ELSE @]
                       ELSE IF call'.ret = "False" THEN gui
                       ELSE [gui EXCEPT !.loop = "raised"]
             /\ UNCHANGED <<evaluator, scores, engineVars, patternVars, user_stats>>
        ELSE /\ gui' = IF Occupied(board.sq, sq)
                          /\ (player_colour = "white") = (piece.color = WHITE)
                       THEN [gui EXCEPT !.selected_square = sq,
                                        !.legal_moves_for_selected =
                                            get_legal_moves_for_square(board, sq)]
                       ELSE [gui EXCEPT !.selected_square = NoSquare,
                                        !.legal_moves_for_selected = {}]
             /\ UNCHANGED gameOnly

\* handle_analysis_input
handle_analysis_input(pos) ==
    /\ gui' = IF pos.region = "back" THEN [gui EXCEPT !.screen_state = "menu"] ELSE gui
    /\ UNCHANGED gameOnly

\* run(): pygame.QUIT
Quit ==
    /\ gui.loop = "running"
    /\ gui' = [gui EXCEPT !.loop = "quit"]
    /\ UNCHANGED gameOnly

\* run(): pygame.MOUSEBUTTONDOWN
MouseButtonDown(pos) ==
    /\ gui.loop = "running"
    /\ CASE gui.screen_state = "login" -> handle_login_click(pos)
         [] gui.screen_state = "menu" -> handle_menu_click(pos)
         [] gui.screen_state = "game" -> handle_game_click(pos)
         [] OTHER -> handle_analysis_input(pos)

\* run(): pygame.KEYDOWN
KeyDown(key) ==
    /\ gui.loop = "running"
    /\ CASE gui.screen_state = "login" -> handle_login_key(key)
         [] gui.screen_state = "game" /\ key = "u" ->
                /\ UndoMove
                /\ gui' = [gui EXCEPT !.selected_square = NoSquare,
                                      !.legal_moves_for_selected = {}]
                /\ UNCHANGED <<evaluator, scores, engineVars, patternVars, user_stats>>
         [] gui.screen_state = "game" /\ key = "r" -> GuiStartNewGame
         [] gui.screen_state = "game" /\ key = "ESCAPE" ->
                /\ gui' = [gui EXCEPT !.screen_state = "menu"]
                /\ UNCHANGED gameOnly
         [] OTHER -> UNCHANGED vars

\* run(): "Process AI", and process_ai_move()
ProcessAIMove ==
    /\ gui.loop = "running"
    /\ gui.screen_state = "game" /\ gui.ai_is_thinking
    /\ IF gui.ai_is_thinking /\ ~game_over
       THEN \E best_move_uci \in SearchResults(board) :
                /\ MakeAIMove(best_move_uci)
                /\ gui' = IF call'.ret \in {"value", "None"}
                          THEN [gui EXCEPT !.ai_is_thinking = FALSE]
                          ELSE [gui EXCEPT !.loop = "raised"]
                /\ UNCHANGED <<evaluator, scores, engineVars, patternVars, user_stats>>
       ELSE UNCHANGED vars

GuiInit ==
    /\ board = StartingBoard
    /\ player_colour = "white"
    /\ ai_difficulty = 5
    /\ move_history = <<>>
    /\ move_times = <<>>
    /\ game_over = FALSE
    /\ result = "None"
    /\ db_manager = "DatabaseManager"
    /\ user_id = 0
    /\ game_id = 0
    /\ evaluator = PositionEvaluator
    /\ games = <<>>
    /\ moves = <<>>
    /\ call = Call("__init__", NoText, "None")
    /\ gui = Window
    /\ scores = <<>>
    /\ ai_engine = AIEngine(ai_difficulty)
    /\ searches = <<>>
    /\ ordered = <<>>
    /\ patterns = <<>>
    /\ analysed = NoAnalysis
    /\ user_stats = NoStatistics

GuiNext ==
    \/ Quit
    \/ \E pos \in Positions : MouseButtonDown(pos)
    \/ \E key \in Keys : KeyDown(key)
    \/ ProcessAIMove

GuiSpec == GuiInit /\ [][GuiNext]_vars

(***************************************************************************)
(* DatabaseManager.create_user on its own: users are created in the        *)
(* database the window has opened, by any of the names of UserNames.       *)
(***************************************************************************)
UserNames == { <<"a">>, <<"b">>, <<"a", "a">>, <<"a", "b">> }

\* run() goes round its loop for as long as it is running: the "Process AI"
\* step of a pass is reached after the events of the pass, however many
GuiFairSpec == GuiSpec /\ WF_vars(ProcessAIMove)

\* db.create_user(username): the INSERT adds the row unless the name is
\* taken; what is returned is kept as the call's result
CreateUser(username) ==
    LET created == create_user(gui.users, username)
    IN  /\ gui' = [gui EXCEPT !.users = IF created = 0 THEN @ ELSE Append(@, username)]
        /\ call' = Call("create_user", username, created)
        /\ UNCHANGED <<gameVars, dbVars, evaluator, scores, engineVars, patternVars, user_stats>>

UserNext == \E username \in UserNames : CreateUser(username)

UserSpec == GuiInit /\ [][UserNext]_vars

(***************************************************************************)
(* The window's coordinates on their own (final_game.py, game_gui.py): a   *)
(* pixel is <<x, y>>, the board is Files by Ranks squares of SQUARE_SIZE   *)
(* pixels, BOARD_OFFSET_X pixels from the left edge and BOARD_OFFSET_Y     *)
(* from the top, with as much room on the other side.  None is NoSquare.   *)
(***************************************************************************)
BOARD_WIDTH == Files * SQUARE_SIZE
BOARD_HEIGHT == Ranks * SQUARE_SIZE
WINDOW_WIDTH == BOARD_OFFSET_X + BOARD_WIDTH + BOARD_OFFSET_X
WINDOW_HEIGHT == BOARD_OFFSET_Y + BOARD_HEIGHT + BOARD_OFFSET_Y
Pixels == (0 .. WINDOW_WIDTH - 1) \X (0 .. WINDOW_HEIGHT - 1)
Rows == 0 .. Ranks - 1
Cols == 0 .. Files - 1

\* square_to_row_col: row 0 is the top of the board
square_to_row_col(sq) == <<Ranks - 1 - (sq \div Files), sq % Files>>

\* click_to_square without the offset taken off before the division
click_to_square_unshifted(pos) ==
    LET x == pos[1]
        y == pos[2]
    IN  IF \/ x < BOARD_OFFSET_X \/ x >= BOARD_OFFSET_X + BOARD_WIDTH
           \/ y < BOARD_OFFSET_Y \/ y >= BOARD_OFFSET_Y + BOARD_HEIGHT
        THEN NoSquare
        ELSE row_col_to_square(y \div SQUARE_SIZE, x \div SQUARE_SIZE)

\* click_to_square on a pixel
click_to_square_at(pos) ==
    LET x == pos[1]
        y == pos[2]
    IN  IF \/ x < BOARD_OFFSET_X \/ x >= BOARD_OFFSET_X + BOARD_WIDTH
           \/ y < BOARD_OFFSET_Y \/ y >= BOARD_OFFSET_Y + BOARD_HEIGHT
        THEN NoSquare
        ELSE row_col_to_square((y - BOARD_OFFSET_Y) \div SQUARE_SIZE,
                               (x - BOARD_OFFSET_X) \div SQUARE_SIZE)

ClickToSquare(pos) ==
    /\ call' = [op |-> "click_to_square", pos |-> pos, ret |-> click_to_square_at(pos)]
    /\ UNCHANGED <<gameVars, dbVars, evaluator, gui, scores, engineVars, patternVars, user_stats>>

SquareToRowCol(sq) ==
    /\ call' = [op |-> "square_to_row_col", square |-> sq, ret |-> square_to_row_col(sq)]
    /\ UNCHANGED <<gameVars, dbVars, evaluator, gui, scores, engineVars, patternVars, user_stats>>

RowColToSquare(row, col) ==
    /\ call' = [op |-> "row_col_to_square", row |-> row, col |-> col,
                ret |-> row_col_to_square(row, col)]
    /\ UNCHANGED <<gameVars, dbVars, evaluator, gui, scores, engineVars, patternVars, user_stats>>

PixelNext ==
    \/ \E pos \in Pixels : ClickToSquare(pos)
    \/ \E sq \in SQUARES : SquareToRowCol(sq)
    \/ \E row \in Rows, col \in Cols : RowColToSquare(row, col)

PixelSpec == GuiInit /\ [][PixelNext]_vars

(***************************************************************************)
(* Sessions of several users: a name is logged in on the login screen, a   *)
(* game is started from the menu and left with ESC, and the user logs out. *)
(***************************************************************************)
LoginUser(username) ==
    /\ gui.loop = "running"
    /\ gui.screen_state = "login"
    /\ gui' = login_user(gui, username)
    /\ call' = Call("login_user", username, "None")
    /\ UNCHANGED <<gameVars, dbVars, evaluator, scores, engineVars, patternVars, user_stats>>

LoginNext ==
    \/ \E username \in UserNames : LoginUser(username)
    \/ \E pos \in {Pos("start", 0, 0), Pos("logout", 0, 0)} : MouseButtonDown(pos)
    \/ KeyDown("ESCAPE")

LoginSpec == GuiInit /\ [][LoginNext]_vars

\* C7: process_ai_move calls make_ai_move only when it is not the player's
\* turn (a step that changes call to a make_ai_move call is such a call).
C7_AiMovesOnlyOnItsTurn ==
    [][ (call'.op = "make_ai_move" /\ call' # call)
        => ~is_player_turn(player_colour, board) ]_vars

(***************************************************************************)
(* Claims about PositionEvaluator, checked under EvalSpec.                 *)
(***************************************************************************)
LastScore == scores[Len(scores)]
PieceCount(b, t, c) == Cardinality({ s \in SQUARES : b.sq[s] = Piece(t, c) })
Balance(b, t) == PieceCount(b, t, WHITE) - PieceCount(b, t, BLACK)
MaterialBalance(b) ==
    100 * Balance(b, PAWN) + 320 * Balance(b, KNIGHT) + 330 * Balance(b, BISHOP)
    + 500 * Balance(b, ROOK) + 900 * Balance(b, QUEEN) + 0 * Balance(b, KING)

\* C8: on a board where the side to move is checkmated, evaluate_position
\* returns -10000 when White is to move and 10000 when Black is to move,
\* whatever the material.
C8_CheckmateScore ==
    \A i \in DOMAIN scores :
        is_checkmate(board) => scores[i] = (IF board.turn = WHITE THEN -10000 ELSE 10000)

\* C8 witness: an evaluated board where White is mated and is ahead in material
C8_Witness ==
    scores # <<>> /\ is_checkmate(board) /\ board.turn = WHITE /\ MaterialBalance(board) > 0

\* the same with Black mated and ahead in material
C8_WitnessBlackMated ==
    scores # <<>> /\ is_checkmate(board) /\ board.turn = BLACK /\ MaterialBalance(board) < 0

\* C9: on a board that is not checkmate, evaluate_position returns the sum
\* of White's piece values minus the sum of Black's, with pawn 100, knight
\* 320, bishop 330, rook 500, queen 900 and king 0: 0 when both sides hold
\* the same pieces, and 900 less (more) once a white (black) queen is taken
\* off the board.
C9_MaterialBalance ==
    (scores # <<>> /\ ~is_checkmate(board))
    => /\ LastScore = MaterialBalance(board)
       /\ (\A t \in PIECE_TYPES : Balance(board, t) = 0) => LastScore = 0
       /\ \A s \in SQUARES :
            board.sq[s].piece_type = QUEEN
            => LET without == [board EXCEPT !.sq[s] = NoPiece]
               IN  ~is_checkmate(without)
                   => evaluate_position(evaluator, without)
                        = LastScore - (IF board.sq[s].color = WHITE THEN 900 ELSE -900)

\* C9 witness: an evaluated board, not checkmate, with a queen against a bishop
C9_Witness ==
    /\ scores # <<>> /\ ~is_checkmate(board)
    /\ \E s, q \in SQUARES : /\ board.sq[s].piece_type = QUEEN
                             /\ board.sq[q].piece_type = BISHOP
                             /\ board.sq[q].color # board.sq[s].color

\* the same with both sides holding the same pieces
C9_WitnessEqual ==
    /\ scores # <<>> /\ ~is_checkmate(board)
    /\ \A t \in PIECE_TYPES : Balance(board, t) = 0
    /\ \E s \in SQUARES : board.sq[s].piece_type = QUEEN

LastSearch == searches[Len(searches)]
SetMax(S) == CHOOSE x \in S : \A y \in S : y <= x
SetMin(S) == CHOOSE x \in S : \A y \in S : x <= y

\* depth-bounded minimax without pruning: every move of every node down to
\* the depth is searched
RECURSIVE PlainMinimax(_, _, _)
PlainMinimax(self, b, depth) ==
    IF depth = 0 \/ ~any_legal_move(b) THEN leaf_score(self, b)
    ELSE LET below == { PlainMinimax(self, push(b, m), depth - 1) : m \in legal_moves(b) }
         IN  IF b.turn = WHITE THEN SetMax(below) ELSE SetMin(below)

\* the nodes of the tree that minimax without pruning visits
RECURSIVE PlainNodes(_, _)
PlainNodes(b, depth) ==
    IF depth = 0 \/ ~any_legal_move(b) THEN 1
    ELSE LET ms == legal_move_list(b)
             below[i \in 0 .. Len(ms)] ==
                 IF i = 0 THEN 0 ELSE below[i - 1] + PlainNodes(push(b, ms[i]), depth - 1)
         IN  1 + below[Len(ms)]

\* C12: the score get_best_move returns is the score of minimax without
\* pruning at the same depth on the same position, and the move it returns
\* is a legal move that achieves that score.
C12_AlphaBetaIsMinimax ==
    searches # <<>>
    => /\ LastSearch.score = PlainMinimax(ai_engine, board, LastSearch.depth)
       /\ LastSearch.move # <<>>
          => /\ from_uci(LastSearch.move) \in legal_moves(board)
             /\ PlainMinimax(ai_engine, push(board, from_uci(LastSearch.move)),
                             LastSearch.depth - 1) = LastSearch.score

\* C12 witness: a search to depth 3 returned a move and visited fewer nodes
\* than the whole tree has, so that subtrees were cut off
C12_Witness ==
    /\ searches # <<>>
    /\ LastSearch.depth = 3
    /\ LastSearch.move # <<>>
    /\ LastSearch.nodes < PlainNodes(board, 3)

\* a move of the side to move after which the position is checkmate
HasMatingMove(b) == \E m \in legal_moves(b) : is_checkmate(push(b, m))

IndexIn(ms, m) == CHOOSE i \in DOMAIN ms : ms[i] = m

\* C14: order_moves returns the legal moves, each once; every capture comes
\* before every move that is not a capture; two captures, and two moves that
\* are not captures, keep the order they had in the list given; the first
\* move is a capture when there is one.
C14_OrderMoves ==
    ordered # <<>>
    => LET given == legal_move_list(board)
       IN  /\ Len(ordered) = Len(given)
           /\ { ordered[i] : i \in DOMAIN ordered } = legal_moves(board)
           /\ \A i, j \in DOMAIN ordered :
                  i < j => /\ is_capture(board, ordered[j]) => is_capture(board, ordered[i])
                           /\ is_capture(board, ordered[i]) = is_capture(board, ordered[j])
                              => IndexIn(given, ordered[i]) < IndexIn(given, ordered[j])
           /\ (\E m \in legal_moves(board) : is_capture(board, m))
              => is_capture(board, ordered[1])

\* C14 witness: the list given started with a move that is not a capture,
\* and held two captures and two other moves
C14_Witness ==
    /\ ordered # <<>>
    /\ ~is_capture(board, legal_move_list(board)[1])
    /\ Cardinality({ m \in legal_moves(board) : is_capture(board, m) }) >= 2
    /\ Cardinality({ m \in legal_moves(board) : ~is_capture(board, m) }) >= 2

\* C15: get_best_move starts its count of nodes at zero and counts every
\* node it visits once, a node that is not expanded too; afterwards
\* get_nodes_searched() is the count of that one search: what an engine
\* that has never searched counts on the position, at least the root, at
\* most the whole tree of that depth, and the root and each of its moves
\* when the depth is 1.
C15_NodeCounter ==
    [][ searches' # searches
        => LET last == searches'[Len(searches')]
               fresh == get_best_move(AIEngine(ai_engine.difficulty), board)
           IN  /\ get_nodes_searched(ai_engine') = get_nodes_searched(fresh.self)
               /\ last.nodes = get_nodes_searched(ai_engine')
               /\ last.nodes >= 1
               /\ last.nodes <= PlainNodes(board, last.depth)
               /\ last.depth = 1 => last.nodes = 1 + Cardinality(legal_moves(board)) ]_vars

\* C15 witness: an engine that had counted the nodes of one search has
\* searched again
C15_Witness ==
    /\ Len(searches) = 2
    /\ searches[2].nodes_before > 1
    /\ searches[2].nodes > 1

GamesOf(uid) == { i \in DOMAIN games : games[i].user_id = uid }
GamesWith(uid, name) == { i \in GamesOf(uid) : opening_key(games[i].pgn_data[1]) = name }

\* C17: for a user with at least one game, analyze_player_patterns reports
\* every opening of the user's games once, one game being enough, with the
\* number of the user's games that began with it as its frequency and that
\* number divided by the number of the user's games as its confidence, a
\* value from 0 to 1.
C17_FrequencyAndConfidence ==
    (/\ analysed.op = "analyze_player_patterns"
     /\ analysed.games_seen = Len(games)
     /\ GamesOf(analysed.user_id) # {})
    => LET uid == analysed.user_id
           ps == analysed.value
           total == Cardinality(GamesOf(uid))
       IN  /\ \A g \in GamesOf(uid) :
                  Cardinality({ i \in DOMAIN ps :
                                  ps[i].name = opening_key(games[g].pgn_data[1]) }) = 1
           /\ \A i \in DOMAIN ps :
                  /\ ps[i].type = "opening"
                  /\ ps[i].frequency = Cardinality(GamesWith(uid, ps[i].name))
                  /\ ps[i].frequency >= 1
                  /\ ps[i].confidence[2] > 0
                  /\ ps[i].confidence[1] * total = ps[i].frequency * ps[i].confidence[2]
                  /\ 0 <= ps[i].confidence[1] /\ ps[i].confidence[1] <= ps[i].confidence[2]

\* C17 witness: the user analysed has three games, two that began with one
\* opening and went on differently, and one with another opening
C17_Witness ==
    /\ analysed.op = "analyze_player_patterns"
    /\ analysed.games_seen = Len(games)
    /\ Cardinality(GamesOf(analysed.user_id)) = 3
    /\ \E i, j \in DOMAIN analysed.value :
           /\ analysed.value[i].frequency = 2 /\ analysed.value[i].confidence = <<2, 3>>
           /\ analysed.value[j].frequency = 1 /\ analysed.value[j].confidence = <<1, 3>>
    /\ \E g, h \in GamesOf(analysed.user_id) :
           /\ games[g].pgn_data # games[h].pgn_data
           /\ opening_key(games[g].pgn_data[1]) = opening_key(games[h].pgn_data[1])

C20_CreateUser ==
    [][ (call'.op = "create_user" /\ <<call, gui>>' # <<call, gui>>)
        => IF \E i \in DOMAIN gui.users : gui.users[i] = call'.text
           THEN call'.ret = 0 /\ gui'.users = gui.users
           ELSE /\ call'.ret > 0
                /\ call'.ret \notin DOMAIN gui.users
                /\ gui'.users = Append(gui.users, call'.text)
                /\ gui'.users[call'.ret] = call'.text ]_vars

\* C20 witness: with two users in the table, a name one of them has was
\* given and refused
C20_Witness ==
    /\ call.op = "create_user"
    /\ call.ret = 0
    /\ Len(gui.users) = 2
    /\ \E i \in DOMAIN gui.users : gui.users[i] = call.text


(***************************************************************************)
(* C21: save_game returns a positive game id that no earlier call          *)
(* returned, and get_game on it gives the user, colour and difficulty it   *)
(* was saved with, the result 'ongoing'; a stored game keeps its user,     *)
(* colour and difficulty, and its result stays 'ongoing' until update_game *)
(* is applied to its id; get_game on an id never returned gives None.      *)
(* The ids returned earlier are those of the stored rows.                  *)
(***************************************************************************)
C21_SaveAndGetGame ==
    [][ /\ call'.op = "save_game" /\ games' # games
           => /\ call'.ret > 0
              /\ call'.ret \notin DOMAIN games
              /\ get_game(games', call'.ret) # <<>>
              /\ LET row == get_game(games', call'.ret)[1]
                 IN  /\ row.game_id = call'.ret
                     /\ row.user_id = call'.user_id
                     /\ row.player_colour = call'.player_colour
                     /\ row.ai_difficulty = call'.ai_difficulty
                     /\ row.result = "ongoing"
        /\ \A g \in DOMAIN games :
              /\ get_game(games', g) # <<>>
              /\ get_game(games', g)[1].user_id = get_game(games, g)[1].user_id
              /\ get_game(games', g)[1].player_colour = get_game(games, g)[1].player_colour
              /\ get_game(games', g)[1].ai_difficulty = get_game(games, g)[1].ai_difficulty
              /\ get_game(games', g)[1].result # get_game(games, g)[1].result
                    => call'.op = "update_game" /\ call'.game_id = g
        /\ call'.op = "get_game" /\ call' # call
           => /\ call'.game_id \notin DOMAIN games => call'.ret = <<>>
              /\ call'.game_id \in DOMAIN games
                    => call'.ret = <<[game_id |-> call'.game_id] @@ games[call'.game_id]>> ]_vars

\* the second of two games is read back as ongoing after the first was finished,
\* and an id never returned was asked for before
C21_Witness ==
    /\ Len(games) = 2
    /\ games[1].ended
    /\ call.op = "get_game"
    /\ call.game_id = 2
    /\ call.ret # <<>>
    /\ call.ret[1].result = "ongoing"
    /\ call.ret[1].user_id # games[1].user_id

\* an id that was never returned is asked for while games are stored
C21_WitnessNone ==
    /\ games # <<>>
    /\ call.op = "get_game"
    /\ call.game_id \notin DOMAIN games


(***************************************************************************)
(* C22: when update_game is applied to a stored game owned by u, u's       *)
(* total_games goes up by one and so does exactly the one of games_won,    *)
(* games_lost, games_drawn that matches the outcome for the game's player  *)
(* colour; the statistics of every other user stay as they were.           *)
(***************************************************************************)
OutcomeCounter(row, res) ==
    IF res = "draw" THEN "games_drawn"
    ELSE IF (res = "white_win") = (row.player_colour = "white") THEN "games_won"
    ELSE "games_lost"

C22_UpdateGameCountsTheGame ==
    [][ call'.op = "update_game" /\ call' # call /\ call'.game_id \in DOMAIN games
        => LET u == games[call'.game_id].user_id
               counter == OutcomeCounter(games[call'.game_id], call'.result)
           IN  /\ user_stats'[u].total_games = user_stats[u].total_games + 1
               /\ \A c \in {"games_won", "games_lost", "games_drawn"} :
                     user_stats'[u][c] = user_stats[u][c] + (IF c = counter THEN 1 ELSE 0)
               /\ \A v \in UserIds \ {u} : user_stats'[v] = user_stats[v] ]_vars


(***************************************************************************)
(* C23: row_col_to_square and square_to_row_col are inverse to each other  *)
(* between the rows and columns of the board and its squares;              *)
(* click_to_square gives None for a pixel outside the board rectangle and, *)
(* for a pixel inside, the square whose column is (x - offset) div         *)
(* SQUARE_SIZE and whose row is (y - offset) div SQUARE_SIZE, always a     *)
(* square of the board.                                                    *)
(***************************************************************************)
InsideBoard(pos) ==
    /\ BOARD_OFFSET_X <= pos[1] /\ pos[1] < BOARD_OFFSET_X + BOARD_WIDTH
    /\ BOARD_OFFSET_Y <= pos[2] /\ pos[2] < BOARD_OFFSET_Y + BOARD_HEIGHT

C23_Coordinates ==
    /\ call.op = "row_col_to_square"
       => /\ call.ret \in SQUARES
          /\ square_to_row_col(call.ret) = <<call.row, call.col>>
    /\ call.op = "square_to_row_col"
       => /\ call.ret \in Rows \X Cols
          /\ row_col_to_square(call.ret[1], call.ret[2]) = call.square
    /\ call.op = "click_to_square"
       => IF InsideBoard(call.pos)
          THEN /\ call.ret \in SQUARES
               /\ square_to_row_col(call.ret) =
                     <<(call.pos[2] - BOARD_OFFSET_Y) \div SQUARE_SIZE,
                       (call.pos[1] - BOARD_OFFSET_X) \div SQUARE_SIZE>>
          ELSE call.ret = NoSquare

\* a click on the last pixel of the top right square of the board
C23_Witness ==
    /\ call.op = "click_to_square"
    /\ call.pos = <<BOARD_OFFSET_X + BOARD_WIDTH - 1, BOARD_OFFSET_Y + SQUARE_SIZE - 1>>
    /\ call.ret = square(Files - 1, Ranks - 1)


(***************************************************************************)
(* C24: move_history mirrors the board after any sequence of make_move,    *)
(* make_ai_move, undo_move and reset_game (here: of legal moves only): it  *)
(* holds one entry for every ply on the board, the moves in order, so that *)
(* the total_moves given to update_game and the moves of get_pgn cover     *)
(* every ply.                                                              *)
(***************************************************************************)
C24_HistoryMirrorsBoard ==
    PlayedLegally(board)
    => /\ Len(move_history) = Len(board.stack)
       /\ \A i \in 1 .. Len(move_history) :
             i <= Len(board.stack) => from_uci(move_history[i]) = board.stack[i].move
       /\ get_pgn(move_history, player_colour, game_over, result).moves
             = [i \in 1 .. Len(board.stack) |-> uci(board.stack[i].move)]


(***************************************************************************)
(* C25: undo_move returns True exactly when at least one move has been     *)
(* applied to the board (here: legal moves only); the board is then the    *)
(* position before the most recent move, and game_over and result are      *)
(* cleared.  When it returns False, the board, move_history, move_times,   *)
(* game_over and result are as they were.                                  *)
(***************************************************************************)
C25_UndoTakesBackTheLastMove ==
    [][ (call'.op = "undo_move" /\ PlayedLegally(board))
        => /\ call'.ret \in {"True", "False"}
           /\ call'.ret = "True" <=> board.stack # <<>>
           /\ call'.ret = "True"
              => /\ board' = pop(board)
                 /\ ~game_over'
                 /\ result' = "None"
           /\ call'.ret = "False"
              => UNCHANGED <<board, move_history, move_times, game_over, result>> ]_vars


(***************************************************************************)
(* C27: in every reachable state game_over holds exactly when result is    *)
(* one of white_win, black_win, draw, and fails exactly when result is     *)
(* None; make_ai_move called with game_over true returns None and changes  *)
(* nothing of the game or the store.                                       *)
(***************************************************************************)
C27_GameOverAndResult ==
    /\ [](/\ game_over <=> result \in {"white_win", "black_win", "draw"}
          /\ ~game_over <=> result = "None")
    /\ [][ (call'.op = "make_ai_move" /\ game_over)
           => /\ call'.ret = "None"
              /\ UNCHANGED <<gameVars, dbVars>> ]_vars

\* make_ai_move was called on a finished game
C27_Witness ==
    /\ game_over
    /\ result \in {"white_win", "black_win", "draw"}
    /\ call.op = "make_ai_move"
    /\ call.ret = "None"


(***************************************************************************)
(* C28: a login binds the session to the named user's own id: while a user *)
(* is logged in, current_user_id is the id of the Users row whose username *)
(* is the name logged in with, so that sessions under different usernames  *)
(* never share an id; and a game is recorded against the id of the user    *)
(* who started it.                                                         *)
(***************************************************************************)
C28_LoginBindsOwnId ==
    /\ [](gui.current_user_id # 0
          => /\ gui.current_user_id \in DOMAIN gui.users
             /\ gui.users[gui.current_user_id] = gui.current_username)
    /\ [][ (call'.op = "start_new_game" /\ games' # games)
           => LET row == games'[Len(games')]
              IN  /\ row.user_id \in DOMAIN gui.users
                  /\ gui.users[row.user_id] = gui.current_username ]_vars


(***************************************************************************)
(* C26: the game never gets stuck on the computer's turn: whenever the     *)
(* game screen shows a game that is not over with the computer to move,    *)
(* ai_is_thinking is true, and the computer's move is eventually made      *)
(* (make_ai_move returns its move to the running loop) unless the user     *)
(* leaves the game screen or closes the window first.                      *)
(***************************************************************************)
ComputersTurn ==
    /\ gui.loop = "running"
    /\ gui.screen_state = "game"
    /\ ~game_over
    /\ ~is_player_turn(player_colour, board)

ComputerMoved ==
    /\ gui.loop = "running"
    /\ call.op = "make_ai_move"
    /\ call.ret = "value"

C26_ComputerMovesEventually ==
    /\ [](ComputersTurn => gui.ai_is_thinking)
    /\ ComputersTurn ~> (ComputerMoved \/ gui.loop = "quit" \/ gui.screen_state # "game")


(***************************************************************************)
(* C29: the game screen submits only legal player moves: handle_game_click *)
(* calls make_move only on the game screen, while the game is not over, on *)
(* the player's turn, and with a move of the legal set of the board that   *)
(* moves a piece of the player's colour; while the loop runs, the moves    *)
(* kept for the selected square are the legal moves of that square on the  *)
(* board as it is.                                                         *)
(***************************************************************************)
C29_OnlyLegalPlayerMoves ==
    /\ [][ (call'.op = "make_move" /\ (call' # call \/ board' # board))
           => /\ gui.screen_state = "game"
              /\ ~game_over
              /\ is_player_turn(player_colour, board)
              /\ from_uci(call'.text) \in legal_moves(board)
              /\ Occupied(board.sq, from_uci(call'.text).from_square)
              /\ (player_colour = "white")
                    = (board.sq[from_uci(call'.text).from_square].color = WHITE) ]_vars
    /\ [](gui.loop = "running" /\ gui.screen_state = "game"
             /\ gui.selected_square # NoSquare
          => gui.legal_moves_for_selected
                = get_legal_moves_for_square(board, gui.selected_square))

\* a move was submitted from the game screen
C29_Witness ==
    /\ gui.screen_state = "game"
    /\ call.op = "make_move"
    /\ Len(board.stack) = 1
    /\ from_uci(call.text) = board.stack[1].move
    /\ gui.selected_square = board.stack[1].move.from_square


(***************************************************************************)
(* C30: every legal move of the player can be played through the game      *)
(* screen, pawn promotions included: on the player's turn a click on the   *)
(* origin square of a legal move selects it, and with the origin selected  *)
(* a click on the destination makes handle_game_click submit a move from   *)
(* that origin to that destination to make_move.                           *)
(***************************************************************************)
PosOf(s) == Pos("board", square_file(s), Ranks - 1 - square_rank(s))

PlayersTurnOnScreen ==
    /\ gui.loop = "running"
    /\ gui.screen_state = "game"
    /\ ~game_over
    /\ is_player_turn(player_colour, board)

C30_EveryLegalMovePlayable ==
    PlayersTurnOnScreen
    => \A m \in legal_moves(board) :
          /\ gui.selected_square = NoSquare
             => ENABLED (/\ MouseButtonDown(PosOf(m.from_square))
                         /\ gui'.selected_square = m.from_square)
          /\ gui.selected_square = m.from_square
             => ENABLED (/\ MouseButtonDown(PosOf(m.to_square))
                         /\ call'.op = "make_move"
                         /\ from_uci(call'.text).from_square = m.from_square
                         /\ from_uci(call'.text).to_square = m.to_square)

=============================================================================
